---- MODULE Spec2Model ----
(***************************************************************************)
(* The event loop of the enclave process (src/enclave_proc/mod.rs):        *)
(* process_event_loop, handle_command, try_handle_enclave_event, the       *)
(* termination thread (notify_terminate / run_terminate) and the signal    *)
(* handler thread (enclave_proc_handle_signals).                           *)
(*                                                                         *)
(* The main thread is a state machine over pc:                             *)
(*   "loop"     at the loop condition (l.271)                              *)
(*   "wait"     inside conn_listener.get_next_connection (l.273)           *)
(*   "dispatch" holds a connection; try_handle_enclave_event and           *)
(*              read_command come next (l.277-295)                         *)
(*   "handle"   holds a command; handle_command comes next (l.298)         *)
(*   "finish"   holds the handler's result; l.308-325 come next            *)
(*   "join"     done is set and the listener stopped; l.327-333 come next  *)
(*   "reply"    the status reply of l.337-344 comes next                   *)
(*   "returned" process_event_loop has returned ret_value (l.349)          *)
(* The termination threads and the signal thread interleave with it.       *)
(***************************************************************************)
EXTENDS Integers, Sequences, FiniteSets, TLC

(* ------------------------------ bounds -------------------------------- *)

\* The number of client and enclave connections get_next_connection hands
\* out in one run (the connections of the internal channels are not counted).
MaxIter == 2

\* The number of termination threads spawned in one run.
MaxTasks == 2

\* The number of distinct enclave identities run_enclaves may return.
MaxEnclaveIds == 1

(* ------------------------- program constants -------------------------- *)

EEXIST == 17

EACCES == 13

EINVAL == 22

\* EnclaveProcessCommandType
Commands ==
    {"Run", "Terminate", "TerminateComplete", "GetEnclaveCID", "Describe",
     "ConnectionListenerStop", "NotPermitted"}

\* The epoll flags an enclave descriptor may report.
EpollFlagSet == {"EPOLLHUP", "EPOLLERR", "EPOLLIN"}

ReplyCommandsWithInternal ==
    {"Run", "Terminate", "Describe", "TerminateComplete", "ConnectionListenerStop"}

ReplyCommandsNoTerminate == {"Run", "Describe"}

ReplyCommandsWithNotPermitted == {"Run", "Terminate", "Describe", "NotPermitted"}

\* The commands whose status code is written back (l.337-344).
ReplyCommands == {"Run", "Terminate", "Describe"}

\* The connections get_next_connection may hand out: the client and enclave
\* ones, one per termination thread and one for the signal channel.
ConnIds == 1..(MaxIter + MaxTasks + 1)

TaskIds == 1..MaxTasks

\* EnclaveManager::default(): the enclave_id is the empty string (0 here).
DefaultEnclaveManager == [enclave_id |-> 0, enclave_cid |-> 0]

\* The managers run_enclaves may return: a non-empty enclave_id and its CID.
RunEnclavesResults ==
    {[enclave_id |-> i, enclave_cid |-> 3 + i] : i \in 1..MaxEnclaveIds}

\* The endpoints the connection listener may have registered.
SigEndpoint == <<"sig", 0>>

CommEndpoint == <<"comm", 0>>

ListenEndpoint == <<"listen", 0>>

TermEndpoint(k) == <<"term", k>>

\* The messages written to a connection: <<kind, value, command>>.
StatusMsg(code, c) == <<"status", code, c>>

ErrorMsg(c) == <<"error", 0, c>>

ConfirmMsg == <<"u64", 1, "Describe">>

CidMsg(cid) == <<"u64", cid, "GetEnclaveCID">>

DescriptionMsg == <<"description", 0, "Describe">>

NoConnection ==
    [kind |-> "none", conn |-> 0, flags |-> {}, flags_ok |-> TRUE, task |-> 0]

NoStatus == [ok |-> TRUE, code |-> 0, brk |-> FALSE]

NoTask == [state |-> "unspawned", conn |-> 0, manager |-> DefaultEnclaveManager]

VARIABLES
    pc,               \* the main thread's position in process_event_loop
    cur,              \* `connection` (l.273): kind, identity, epoll flags
    cmd,              \* `cmd` (l.289), "" before a command was read
    status,           \* `status` (l.298): the result of handle_command
    done,             \* `done` (l.256)
    ret_value,        \* `ret_value` (l.257): "Ok" or "Err"
    enclave_manager,  \* `enclave_manager` (l.254)
    conn_listener,    \* `conn_listener` (l.253)
    terminate_thread, \* `terminate_thread` (l.255): 0 is None, k is Some(k)
    task,             \* the termination threads (l.107-109)
    chan,             \* the completion channel of each termination thread
    sigThread,        \* the signal handler thread (l.121)
    sigChan,          \* the signal channel (l.115)
    sent,             \* what was written to each connection, in order
    closed,           \* the connections whose peer has hung up
    exited,           \* ok_or_exit has ended the process
    calls,            \* history: how often each collaborator was called
    iterLog,          \* history: stop / join / reply of this iteration
    pre_manager,      \* history: enclave_manager when the iteration began
    observed,         \* history: tasks whose TerminateComplete was fetched
    joined            \* history: tasks that were joined

vars ==
    <<pc, cur, cmd, status, done, ret_value, enclave_manager, conn_listener,
      terminate_thread, task, chan, sigThread, sigChan, sent, closed, exited,
      calls, iterLog, pre_manager, observed, joined>>

(* ------------------------------ helpers ------------------------------- *)

Range(s) == {s[i] : i \in 1..Len(s)}

\* A write to connection c succeeds unless its peer has hung up; the peer
\* may hang up at any time before the write.
WriteOutcomes(c) == IF c \in closed THEN {FALSE} ELSE {TRUE, FALSE}

Bump(f) == [calls EXCEPT ![f] = @ + 1]

Spawned == {k \in TaskIds : task[k].state # "unspawned"}

\* The termination threads that were spawned and have not finished.
Outstanding == {k \in TaskIds : task[k].state \in {"terminating", "notifying"}}

is_running_never(m) == FALSE

\* l.182: !enclave_manager.enclave_id.is_empty()
is_running(m) == m.enclave_id # 0

(* --------------------- state after construction ----------------------- *)

\* process_event_loop l.253-269: the listener is created, the signal handler
\* is configured and its channel registered, the CLI channel is registered.
Init ==
    /\ pc = "loop"
    /\ cur = NoConnection
    /\ cmd = ""
    /\ status = NoStatus
    /\ done = FALSE
    /\ ret_value = "Ok"
    /\ enclave_manager = DefaultEnclaveManager
    /\ conn_listener =
         [state |-> "Listening", endpoints |-> {SigEndpoint, CommEndpoint},
          enclave_fd |-> FALSE]
    /\ terminate_thread = 0
    /\ task = [k \in TaskIds |-> NoTask]
    /\ chan = [k \in TaskIds |-> "empty"]
    /\ sigThread = "waiting"
    /\ sigChan = "empty"
    /\ sent = [c \in ConnIds |-> <<>>]
    /\ closed = {}
    /\ exited = FALSE
    /\ calls = [get_next_connection |-> 0, external |-> 0, read_command |-> 0,
                run_enclaves |-> 0, start |-> 0, register_enclave_descriptor |-> 0,
                stop |-> 0]
    /\ iterLog = <<>>
    /\ pre_manager = DefaultEnclaveManager
    /\ observed = {}
    /\ joined = {}

(* ------------------------ connection listener ------------------------- *)

\* ConnectionListener::add_stream_to_epoll: the endpoint is registered.
add_stream_to_epoll(l, e) == [l EXCEPT !.endpoints = @ \cup {e}]

\* ConnectionListener::start: the per-enclave listening address is opened.
start(l) == [l EXCEPT !.endpoints = @ \cup {ListenEndpoint}]

\* ConnectionListener::register_enclave_descriptor.
register_enclave_descriptor(l) == [l EXCEPT !.enclave_fd = TRUE]

\* ConnectionListener::stop: every tracked endpoint, the listening address
\* and the enclave descriptor are deregistered and closed.
stop(l) == [state |-> "Stopped", endpoints |-> {}, enclave_fd |-> FALSE]

\* The connections get_next_connection may return: a ready endpoint of the
\* listener.  A client may be ready on the CLI channel or on the listening
\* address; the enclave descriptor is polled when the manager has one.
\* flags_ok tells whether get_enclave_event_flags will succeed on it.
ReadyConnections ==
    LET c == calls.get_next_connection
    IN  {[kind |-> "client", conn |-> c, flags |-> {"EPOLLIN"}, flags_ok |-> b, task |-> 0] :
            e \in IF calls.external < MaxIter
                  THEN conn_listener.endpoints \cap {CommEndpoint, ListenEndpoint}
                  ELSE {},
            b \in BOOLEAN}
        \cup
        {[kind |-> "enclave", conn |-> c, flags |-> f, flags_ok |-> b, task |-> 0] :
            f \in IF /\ calls.external < MaxIter
                      /\ conn_listener.enclave_fd
                      /\ enclave_manager.enclave_id # 0
                  THEN (SUBSET EpollFlagSet) \ {{}} ELSE {},
            b \in BOOLEAN}
        \cup
        {[kind |-> "signal", conn |-> c, flags |-> {"EPOLLIN"}, flags_ok |-> TRUE, task |-> 0] :
            e \in IF sigChan = "cmd"
                  THEN conn_listener.endpoints \cap {SigEndpoint} ELSE {}}
        \cup
        {[kind |-> "term", conn |-> c, flags |-> {"EPOLLIN"}, flags_ok |-> TRUE, task |-> k] :
            k \in {j \in TaskIds : /\ chan[j] = "cmd"
                                   /\ TermEndpoint(j) \in conn_listener.endpoints}}

(* --------------------------- the main thread -------------------------- *)

LoopContinuesAlways(d) == TRUE

\* l.271: while !done
LoopContinues(d) == ~d

\* l.271-274: the loop condition, then the call of get_next_connection,
\* which blocks until an endpoint is ready.
LoopHead ==
    /\ ~exited
    /\ pc = "loop"
    /\ IF LoopContinues(done)
       THEN /\ calls' = Bump("get_next_connection")
            /\ pc' = "wait"
       ELSE /\ pc' = "returned"
            /\ UNCHANGED calls
    /\ UNCHANGED <<cur, cmd, status, done, ret_value, enclave_manager,
                   conn_listener, terminate_thread, task, chan, sigThread,
                   sigChan, sent, closed, exited, iterLog, pre_manager,
                   observed, joined>>

\* l.273-274: get_next_connection returns a ready connection.
GetNextConnection ==
    /\ ~exited
    /\ pc = "wait"
    /\ \E r \in ReadyConnections :
         /\ cur' = r
         /\ sigChan' = IF r.kind = "signal" THEN "read" ELSE sigChan
         /\ chan' = IF r.kind = "term" THEN [chan EXCEPT ![r.task] = "read"] ELSE chan
         /\ observed' = IF r.kind = "term" THEN observed \cup {r.task} ELSE observed
         /\ calls' = IF r.kind \in {"client", "enclave"} THEN Bump("external") ELSE calls
    /\ pc' = "dispatch"
    /\ cmd' = ""
    /\ status' = NoStatus
    /\ iterLog' = <<>>
    /\ pre_manager' = enclave_manager
    /\ UNCHANGED <<done, ret_value, enclave_manager, conn_listener,
                   terminate_thread, task, sigThread, sent, closed, exited,
                   joined>>

\* Connection::get_enclave_event_flags: Some(flags) for the enclave
\* descriptor, None for any other connection, or an error.
get_enclave_event_flags(c) ==
    IF ~c.flags_ok THEN [tag |-> "Err", flags |-> {}]
    ELSE IF c.kind = "enclave" THEN [tag |-> "Some", flags |-> c.flags]
    ELSE [tag |-> "None", flags |-> {}]

try_handle_enclave_event_strict(res) ==
    IF res.tag = "Err" THEN "Err"
    ELSE IF res.tag = "Some"
         THEN IF res.flags \ {"EPOLLHUP"} # {} THEN "Unexpected"
              ELSE IF "EPOLLHUP" \in res.flags THEN "HangUp" ELSE "Unexpected"
         ELSE "None"

try_handle_enclave_event_fatal(res) ==
    IF res.tag = "Err" THEN "Err"
    ELSE IF res.tag = "Some"
         THEN IF "EPOLLHUP" \in res.flags THEN "HangUp" ELSE "Err"
         ELSE "None"

\* l.143-168
try_handle_enclave_event(res) ==
    IF res.tag = "Err" THEN "Err"
    ELSE IF res.tag = "Some"
         THEN IF "EPOLLHUP" \in res.flags THEN "HangUp" ELSE "Unexpected"
         ELSE "None"

\* l.277-285, the arms that end the iteration: break on a hang-up, continue
\* on another enclave event, break with an error result on a failed check.
EnclaveEvent ==
    /\ ~exited
    /\ pc = "dispatch"
    /\ LET ev == try_handle_enclave_event(get_enclave_event_flags(cur))
       IN  /\ ev # "None"
           /\ pc' = IF ev = "Unexpected" THEN "loop" ELSE "returned"
           /\ ret_value' = IF ev = "Err" THEN "Err" ELSE ret_value
    /\ UNCHANGED <<cur, cmd, status, done, enclave_manager, conn_listener,
                   terminate_thread, task, chan, sigThread, sigChan, sent,
                   closed, exited, calls, iterLog, pre_manager, observed, joined>>

\* What read_command may return on connection c: the command its peer sent,
\* or "ReadErr".  The internal channels carry the one command written to them.
ReadResults(c) ==
    IF c.kind = "signal" THEN {"ConnectionListenerStop"}
    ELSE IF c.kind = "term" THEN {"TerminateComplete"}
    ELSE {"ReadErr"} \cup
         {x \in Commands : x = "Terminate" => Cardinality(Spawned) < MaxTasks}

\* l.280 and l.287-295: no enclave event, so a command is read; a failed
\* read is forwarded to the peer (notify_error_with_conn) and breaks the loop.
ReadCommand ==
    /\ ~exited
    /\ pc = "dispatch"
    /\ try_handle_enclave_event(get_enclave_event_flags(cur)) = "None"
    /\ calls' = Bump("read_command")
    /\ \E r \in ReadResults(cur) :
         IF r = "ReadErr"
         THEN \E w \in WriteOutcomes(cur.conn) :
                IF w
                THEN /\ sent' = [sent EXCEPT ![cur.conn] = Append(@, ErrorMsg("read_command"))]
                     /\ pc' = "returned"
                     /\ UNCHANGED <<cmd, closed, exited>>
                ELSE /\ exited' = TRUE
                     /\ closed' = closed \cup {cur.conn}
                     /\ UNCHANGED <<cmd, sent, pc>>
         ELSE /\ cmd' = r
              /\ pc' = "handle"
              /\ UNCHANGED <<sent, closed, exited>>
    /\ UNCHANGED <<cur, status, done, ret_value, enclave_manager, conn_listener,
                   terminate_thread, task, chan, sigThread, sigChan, iterLog,
                   pre_manager, observed, joined>>

(* --------------------------- handle_command --------------------------- *)

\* The steps of a Run that may fail, in the order of l.185-203, and "ok".
RunOutcomes == {"read", "run_enclaves", "start", "get_enclave_descriptor", "ok"}

HandleRunRegistersFirst ==
    /\ cmd = "Run"
    /\ IF is_running(enclave_manager)
       THEN /\ status' = [ok |-> TRUE, code |-> EEXIST, brk |-> FALSE]
            /\ UNCHANGED <<enclave_manager, conn_listener, calls>>
       ELSE \E o \in RunOutcomes, m \in RunEnclavesResults :
              /\ status' = IF o = "ok" THEN [ok |-> TRUE, code |-> 0, brk |-> FALSE]
                           ELSE [ok |-> FALSE, code |-> 0, brk |-> FALSE]
              /\ enclave_manager' =
                   IF o \in {"read", "run_enclaves"} THEN enclave_manager ELSE m
              /\ conn_listener' =
                   IF o = "ok" THEN register_enclave_descriptor(start(conn_listener))
                   ELSE IF o = "get_enclave_descriptor" THEN start(conn_listener)
                   ELSE IF o = "start" THEN register_enclave_descriptor(conn_listener)
                   ELSE conn_listener
              /\ calls' =
                   [calls EXCEPT
                      !.run_enclaves = IF o = "read" THEN @ ELSE @ + 1,
                      !.start = IF o \in {"read", "run_enclaves"} THEN @ ELSE @ + 1,
                      !.register_enclave_descriptor =
                          IF o \in {"ok", "start"} THEN @ + 1 ELSE @]
    /\ UNCHANGED <<terminate_thread, task, sent, closed>>

\* l.180-206
HandleRun ==
    /\ cmd = "Run"
    /\ IF is_running(enclave_manager)
       THEN /\ status' = [ok |-> TRUE, code |-> EEXIST, brk |-> FALSE]
            /\ UNCHANGED <<enclave_manager, conn_listener, calls>>
       ELSE \E o \in RunOutcomes, m \in RunEnclavesResults :
              /\ status' = IF o = "ok" THEN [ok |-> TRUE, code |-> 0, brk |-> FALSE]
                           ELSE [ok |-> FALSE, code |-> 0, brk |-> FALSE]
              /\ enclave_manager' =
                   IF o \in {"read", "run_enclaves"} THEN enclave_manager ELSE m
              /\ conn_listener' =
                   IF o = "ok" THEN register_enclave_descriptor(start(conn_listener))
                   ELSE IF o = "get_enclave_descriptor" THEN start(conn_listener)
                   ELSE conn_listener
              /\ calls' =
                   [calls EXCEPT
                      !.run_enclaves = IF o = "read" THEN @ ELSE @ + 1,
                      !.start = IF o \in {"read", "run_enclaves"} THEN @ ELSE @ + 1,
                      !.register_enclave_descriptor = IF o = "ok" THEN @ + 1 ELSE @]
    /\ UNCHANGED <<terminate_thread, task, sent, closed>>

\* The steps of notify_terminate that may fail (l.101-106), and "ok".
TerminateOutcomes == {"pair", "add_stream_to_epoll", "ok"}

\* l.208-215 and notify_terminate (l.96-110): a stream pair is made, its
\* local end registered, the thread spawned with clones of the connection
\* and of the enclave manager, and its handle stored over the previous one.
HandleTerminate ==
    /\ cmd = "Terminate"
    /\ \E o \in TerminateOutcomes :
         IF o = "ok"
         THEN LET k == Cardinality(Spawned) + 1
              IN  /\ k \in TaskIds
                  /\ conn_listener' = add_stream_to_epoll(conn_listener, TermEndpoint(k))
                  /\ task' = [task EXCEPT ![k] =
                                [state |-> "terminating", conn |-> cur.conn,
                                 manager |-> enclave_manager]]
                  /\ terminate_thread' = k
                  /\ status' = [ok |-> TRUE, code |-> 0, brk |-> FALSE]
         ELSE /\ status' = [ok |-> FALSE, code |-> 0, brk |-> FALSE]
              /\ UNCHANGED <<conn_listener, task, terminate_thread>>
    /\ UNCHANGED <<enclave_manager, calls, sent, closed>>

\* l.217-220
HandleTerminateComplete ==
    /\ cmd = "TerminateComplete"
    /\ status' = [ok |-> TRUE, code |-> 0, brk |-> TRUE]
    /\ UNCHANGED <<enclave_manager, conn_listener, terminate_thread, task,
                   calls, sent, closed>>

\* l.222-230: get_console_resources gives the CID of a running enclave or
\* fails; the CID is then written to the connection.
HandleGetEnclaveCID ==
    /\ cmd = "GetEnclaveCID"
    /\ \/ /\ status' = [ok |-> FALSE, code |-> 0, brk |-> FALSE]
          /\ UNCHANGED <<sent, closed>>
       \/ /\ enclave_manager.enclave_id # 0
          /\ \E w \in WriteOutcomes(cur.conn) :
               IF w
               THEN /\ sent' = [sent EXCEPT ![cur.conn] =
                                  Append(@, CidMsg(enclave_manager.enclave_cid))]
                    /\ status' = [ok |-> TRUE, code |-> 0, brk |-> FALSE]
                    /\ UNCHANGED closed
               ELSE /\ closed' = closed \cup {cur.conn}
                    /\ status' = [ok |-> FALSE, code |-> 0, brk |-> FALSE]
                    /\ UNCHANGED sent
    /\ UNCHANGED <<enclave_manager, conn_listener, terminate_thread, task, calls>>

\* l.232-240: the confirmation marker is written, then describe_enclaves
\* writes the description to the connection or fails.
HandleDescribe ==
    /\ cmd = "Describe"
    /\ \E w \in WriteOutcomes(cur.conn) :
         IF w
         THEN \/ /\ sent' = [sent EXCEPT ![cur.conn] = Append(@, ConfirmMsg)]
                 /\ status' = [ok |-> FALSE, code |-> 0, brk |-> FALSE]
                 /\ UNCHANGED closed
              \/ /\ sent' = [sent EXCEPT ![cur.conn] =
                               Append(Append(@, ConfirmMsg), DescriptionMsg)]
                 /\ status' = [ok |-> TRUE, code |-> 0, brk |-> FALSE]
                 /\ UNCHANGED closed
         ELSE /\ closed' = closed \cup {cur.conn}
              /\ status' = [ok |-> FALSE, code |-> 0, brk |-> FALSE]
              /\ UNCHANGED sent
    /\ UNCHANGED <<enclave_manager, conn_listener, terminate_thread, task, calls>>

HandleConnectionListenerStopContinues ==
    /\ cmd = "ConnectionListenerStop"
    /\ status' = [ok |-> TRUE, code |-> 0, brk |-> FALSE]
    /\ UNCHANGED <<enclave_manager, conn_listener, terminate_thread, task,
                   calls, sent, closed>>

\* l.242
HandleConnectionListenerStop ==
    /\ cmd = "ConnectionListenerStop"
    /\ status' = [ok |-> TRUE, code |-> 0, brk |-> TRUE]
    /\ UNCHANGED <<enclave_manager, conn_listener, terminate_thread, task,
                   calls, sent, closed>>

\* l.244
HandleNotPermitted ==
    /\ cmd = "NotPermitted"
    /\ status' = [ok |-> TRUE, code |-> EACCES, brk |-> FALSE]
    /\ UNCHANGED <<enclave_manager, conn_listener, terminate_thread, task,
                   calls, sent, closed>>

\* l.298-305 and handle_command (l.171-246)
HandleCommand ==
    /\ ~exited
    /\ pc = "handle"
    /\ \/ HandleRun
       \/ HandleTerminate
       \/ HandleTerminateComplete
       \/ HandleGetEnclaveCID
       \/ HandleDescribe
       \/ HandleConnectionListenerStop
       \/ HandleNotPermitted
    /\ pc' = "finish"
    /\ UNCHANGED <<cur, cmd, done, ret_value, chan, sigThread, sigChan, exited,
                   iterLog, pre_manager, observed, joined>>

(* ------------------- the end of a loop iteration ---------------------- *)

ErrorStatusNoBreak == [code |-> EINVAL, brk |-> FALSE]

\* l.313: the status code and the break flag after a handler error.
ErrorStatus == [code |-> EINVAL, brk |-> TRUE]

CleanUpAlways(d) == TRUE

\* l.322: the clean-up (stop, then join) is performed if done is set.
CleanUp(d) == d

\* l.307-325: the status code and the break flag are taken from the
\* handler's result (an error is forwarded to the peer and gives EINVAL and
\* a break), done is assigned, and if it is set the listener is stopped.
FinishWith(stops) ==
    /\ ~exited
    /\ pc = "finish"
    /\ \E w \in (IF status.ok THEN {TRUE} ELSE WriteOutcomes(cur.conn)) :
         IF w
         THEN LET do_break == IF status.ok THEN status.brk ELSE ErrorStatus.brk
                  status_code == IF status.ok THEN status.code ELSE ErrorStatus.code
              IN  /\ sent' = IF status.ok THEN sent
                             ELSE [sent EXCEPT ![cur.conn] = Append(@, ErrorMsg(cmd))]
                  /\ status' = [status EXCEPT !.code = status_code, !.brk = do_break]
                  /\ done' = do_break
                  /\ IF CleanUp(do_break)
                     THEN /\ conn_listener' =
                               IF stops THEN stop(conn_listener) ELSE conn_listener
                          /\ calls' = IF stops THEN Bump("stop") ELSE calls
                          /\ iterLog' = IF stops THEN Append(iterLog, "stop") ELSE iterLog
                          /\ pc' = "join"
                     ELSE /\ pc' = "reply"
                          /\ UNCHANGED <<conn_listener, calls, iterLog>>
                  /\ UNCHANGED <<closed, exited>>
         ELSE /\ exited' = TRUE
              /\ closed' = closed \cup {cur.conn}
              /\ UNCHANGED <<pc, sent, status, done, conn_listener, calls, iterLog>>
    /\ UNCHANGED <<cur, cmd, ret_value, enclave_manager, terminate_thread, task,
                   chan, sigThread, sigChan, pre_manager, observed, joined>>

FinishWithoutStop == FinishWith(FALSE)

Finish == FinishWith(TRUE)

\* l.326-333: the termination thread whose handle is stored, if any, is
\* joined; join returns once that thread has finished.
Join ==
    /\ ~exited
    /\ pc = "join"
    /\ IF terminate_thread = 0
       THEN UNCHANGED <<terminate_thread, joined, iterLog>>
       ELSE /\ task[terminate_thread].state = "finished"
            /\ joined' = joined \cup {terminate_thread}
            /\ terminate_thread' = 0
            /\ iterLog' = Append(iterLog, "join")
    /\ pc' = "reply"
    /\ UNCHANGED <<cur, cmd, status, done, ret_value, enclave_manager,
                   conn_listener, task, chan, sigThread, sigChan, sent, closed,
                   exited, calls, pre_manager, observed>>

\* l.336-345: the status code is written for Run, Terminate and Describe;
\* then the loop condition is evaluated again.
Reply ==
    /\ ~exited
    /\ pc = "reply"
    /\ IF cmd \in ReplyCommands
       THEN \E w \in WriteOutcomes(cur.conn) :
              IF w
              THEN /\ sent' = [sent EXCEPT ![cur.conn] =
                                 Append(@, StatusMsg(status.code, cmd))]
                   /\ iterLog' = Append(iterLog, "reply")
                   /\ pc' = "loop"
                   /\ UNCHANGED <<closed, exited>>
              ELSE /\ exited' = TRUE
                   /\ closed' = closed \cup {cur.conn}
                   /\ UNCHANGED <<pc, sent, iterLog>>
       ELSE /\ pc' = "loop"
            /\ UNCHANGED <<sent, iterLog, closed, exited>>
    /\ UNCHANGED <<cur, cmd, status, done, ret_value, enclave_manager,
                   conn_listener, terminate_thread, task, chan, sigThread,
                   sigChan, calls, pre_manager, observed, joined>>

(* ------------------------ the other threads --------------------------- *)

\* The process runs until ok_or_exit ends it or process_event_loop returns
\* (enclave_process_run then calls process::exit, l.386-390).
Alive == ~exited /\ pc # "returned"

\* run_terminate l.81-86: terminate_enclaves on the cloned manager; a
\* failure is forwarded to the requester's connection, and if that fails
\* ok_or_exit (l.72) ends the process in this thread ("failed_report").
TaskTerminate(k) ==
    /\ Alive
    /\ task[k].state = "terminating"
    /\ \/ /\ task' = [task EXCEPT ![k].state = "notifying"]
          /\ UNCHANGED <<sent, closed, exited>>
       \/ \E w \in WriteOutcomes(task[k].conn) :
            IF w
            THEN /\ sent' = [sent EXCEPT ![task[k].conn] =
                               Append(@, ErrorMsg("terminate_enclaves"))]
                 /\ task' = [task EXCEPT ![k].state = "notifying"]
                 /\ UNCHANGED <<closed, exited>>
            ELSE /\ exited' = TRUE
                 /\ closed' = closed \cup {task[k].conn}
                 /\ task' = [task EXCEPT ![k].state = "failed_report"]
                 /\ UNCHANGED sent
    /\ UNCHANGED <<pc, cur, cmd, status, done, ret_value, enclave_manager,
                   conn_listener, terminate_thread, chan, sigThread, sigChan,
                   calls, iterLog, pre_manager, observed, joined>>

\* run_terminate l.88-92 and send_command_and_close (l.60-66):
\* TerminateComplete is written to the thread's end of the stream pair, which
\* fails if the listener has closed the other end; ok_or_exit (l.62) then
\* ends the process in this thread ("failed_send").
TaskNotify(k) ==
    /\ Alive
    /\ task[k].state = "notifying"
    /\ IF TermEndpoint(k) \in conn_listener.endpoints
       THEN /\ chan' = [chan EXCEPT ![k] = "cmd"]
            /\ task' = [task EXCEPT ![k].state = "finished"]
            /\ UNCHANGED exited
       ELSE /\ exited' = TRUE
            /\ task' = [task EXCEPT ![k].state = "failed_send"]
            /\ UNCHANGED chan
    /\ UNCHANGED <<pc, cur, cmd, status, done, ret_value, enclave_manager,
                   conn_listener, terminate_thread, sigThread, sigChan, sent,
                   closed, calls, iterLog, pre_manager, observed, joined>>

\* enclave_proc_handle_signals (l.127-140): a signal is received and
\* ConnectionListenerStop is written to the thread's end of the signal
\* channel; the handler returns true and the thread ends.
Signal ==
    /\ Alive
    /\ sigThread = "waiting"
    /\ IF SigEndpoint \in conn_listener.endpoints
       THEN /\ sigChan' = "cmd"
            /\ sigThread' = "stopped"
            /\ UNCHANGED exited
       ELSE /\ exited' = TRUE
            /\ UNCHANGED <<sigChan, sigThread>>
    /\ UNCHANGED <<pc, cur, cmd, status, done, ret_value, enclave_manager,
                   conn_listener, terminate_thread, task, chan, sent, closed,
                   calls, iterLog, pre_manager, observed, joined>>

(* --------------------------- specification ---------------------------- *)

LoopStep ==
    \/ LoopHead
    \/ GetNextConnection
    \/ EnclaveEvent
    \/ ReadCommand
    \/ HandleCommand
    \/ Finish
    \/ Join
    \/ Reply

Next ==
    \/ LoopHead
    \/ GetNextConnection
    \/ EnclaveEvent
    \/ ReadCommand
    \/ HandleCommand
    \/ Finish
    \/ Join
    \/ Reply
    \/ \E k \in TaskIds : TaskTerminate(k)
    \/ \E k \in TaskIds : TaskNotify(k)
    \/ Signal

Spec == Init /\ [][Next]_vars

\* The scheduling of the threads: the main thread and every termination
\* thread keep running while they have a step to take.  The arrival of a
\* signal is left to the environment.
FairSpec ==
    /\ Init
    /\ [][Next]_vars
    /\ WF_vars(LoopStep)
    /\ \A k \in TaskIds : WF_vars(TaskTerminate(k))
    /\ \A k \in TaskIds : WF_vars(TaskNotify(k))

TypeOK ==
    /\ pc \in {"loop", "wait", "dispatch", "handle", "finish", "join", "reply", "returned"}
    /\ cmd \in Commands \cup {""}
    /\ done \in BOOLEAN
    /\ ret_value \in {"Ok", "Err"}
    /\ terminate_thread \in 0..MaxTasks
    /\ closed \subseteq ConnIds
    /\ exited \in BOOLEAN
    /\ observed \subseteq TaskIds
    /\ joined \subseteq TaskIds

(* ------------------------------ claims -------------------------------- *)

\* The commands a client waits on for a status reply.
ClientCommands == {"Run", "Terminate", "Describe"}

\* The loop is in an iteration whose command is Run and which began with an
\* active enclave (enclave_id non-empty).
RunWhileActive ==
    /\ cmd = "Run"
    /\ pre_manager.enclave_id # 0
    /\ pc \in {"handle", "finish", "join", "reply"}

\* C1: a Run handled while an enclave is active (an earlier Run succeeded)
\* gets the result (EEXIST, no break), changes neither the enclave manager
\* nor the listener nor the termination handle, calls neither run_enclaves
\* nor start nor register_enclave_descriptor, is answered with the status
\* EEXIST, and leaves the loop running.
C1_RunWhileActiveIsRejected ==
    [][RunWhileActive =>
         /\ enclave_manager' = enclave_manager
         /\ conn_listener' = conn_listener
         /\ terminate_thread' = terminate_thread
         /\ calls' = calls
         /\ done' = FALSE
         /\ pc' \in {"handle", "finish", "reply", "loop"}
         /\ (pc = "handle" /\ pc' = "finish" =>
               status' = [ok |-> TRUE, code |-> EEXIST, brk |-> FALSE])
         /\ (pc = "reply" /\ pc' = "loop" =>
               sent' = [sent EXCEPT ![cur.conn] = Append(@, StatusMsg(EEXIST, "Run"))])
         /\ (pc' # "loop" => sent'[cur.conn] = sent[cur.conn])]_vars

\* C1 witness: a second Run has been answered with EEXIST after a first one
\* created the enclave, and the loop goes on.
C1_Witness ==
    /\ pc = "loop"
    /\ cmd = "Run"
    /\ pre_manager.enclave_id # 0
    /\ enclave_manager = pre_manager
    /\ calls.run_enclaves = 1
    /\ sent[cur.conn] = <<StatusMsg(EEXIST, "Run")>>
    /\ ~done

\* C2: when the loop has fetched the TerminateComplete of a termination
\* thread from get_next_connection, the status 0 of the Terminate that
\* spawned the thread has already been written to its requester.
C2_TerminateRepliedBeforeComplete ==
    \A k \in observed :
        /\ task[k].state = "finished"
        /\ StatusMsg(0, "Terminate") \in Range(sent[task[k].conn])

\* C2 witness: the loop has fetched a thread's TerminateComplete.
C2_Witness ==
    \E k \in observed : cur.kind = "term" /\ cur.task = k /\ cmd = "TerminateComplete"

\* C3: when process_event_loop has returned, the listener's stop() has been
\* called exactly once.
C3_StoppedOnceOnReturn == pc = "returned" => calls.stop = 1

\* The orders in which the terminal actions of an iteration may have happened.
TerminalOrders ==
    {<<"stop">>, <<"stop", "join">>, <<"stop", "reply">>, <<"stop", "join", "reply">>}

\* C4: in the iteration in which a handler signalled break (done is set),
\* the listener is stopped first, then the termination thread is joined if
\* there is a handle, then the status reply is written, and it is written
\* only for Run, Terminate and Describe.
C4_TerminalOrder ==
    done =>
      /\ iterLog \in TerminalOrders
      /\ calls.stop = 1
      /\ conn_listener.state = "Stopped"
      /\ ("reply" \in Range(iterLog) => cmd \in ClientCommands)
      /\ (pc \in {"reply", "loop", "returned"} => terminate_thread = 0)
      /\ (pc \in {"loop", "returned"} =>
            ("reply" \in Range(iterLog) <=> cmd \in ClientCommands))

\* C4 witness: the loop has returned after stop, join and reply, in that order.
C4_Witness ==
    /\ done
    /\ pc = "returned"
    /\ iterLog = <<"stop", "join", "reply">>

\* C5: at most one termination thread is outstanding at any time.
C5_AtMostOneOutstanding == Cardinality(Outstanding) <= 1

\* C6: when process_event_loop has returned, every termination thread that
\* was spawned has been joined.
C6_AllJoinedOnReturn == pc = "returned" => Spawned \subseteq joined

\* C7: no status reply is ever written for a TerminateComplete or a
\* ConnectionListenerStop command: no connection holds such a status, and
\* the connection such a command came on holds no status at all.
C7_NoReplyToInternalCommands ==
    /\ \A c \in ConnIds : \A m \in Range(sent[c]) :
         m[1] = "status" => m[3] \notin {"TerminateComplete", "ConnectionListenerStop"}
    /\ cmd \in {"TerminateComplete", "ConnectionListenerStop"} =>
         \A m \in Range(sent[cur.conn]) : m[1] # "status"

\* C7 witness: a ConnectionListenerStop or TerminateComplete has been handled
\* to the end and the loop has returned.
C7_Witness ==
    /\ cmd \in {"TerminateComplete", "ConnectionListenerStop"}
    /\ pc = "returned"
    /\ done

\* C8: once the loop is Done, the listener has no registered endpoint and no
\* enclave descriptor, none is registered any more, and
\* get_next_connection is not called again.
C8_DoneListenerEmpty ==
    [][/\ done => /\ conn_listener.endpoints = {}
                  /\ ~conn_listener.enclave_fd
                  /\ conn_listener' = conn_listener
                  /\ calls'.get_next_connection = calls.get_next_connection
       /\ done' => /\ conn_listener'.endpoints = {}
                   /\ ~conn_listener'.enclave_fd]_vars

\* C8 witness: the loop is Done after the signal channel and a completion
\* channel were registered, and has returned.
C8_Witness ==
    /\ done
    /\ pc = "returned"
    /\ Spawned # {}
    /\ conn_listener.endpoints = {}

\* C9: while the loop is Running it is never waiting for a termination
\* thread: the join is reached only when done is set, and in the middle of
\* an iteration the main thread always has a next step, whatever the state
\* of the termination threads.
C9_LoopNotBlockedByTermination ==
    /\ pc = "join" => done
    /\ (~exited /\ ~done /\ pc \in {"dispatch", "handle", "finish", "join", "reply"})
         => ENABLED LoopStep

\* C9 witness: Describe got its confirmation marker, its description and its
\* status 0 while a termination thread was outstanding and no
\* TerminateComplete had been sent.
C9_Witness ==
    /\ Outstanding # {}
    /\ \A k \in TaskIds : chan[k] = "empty"
    /\ cmd = "Describe"
    /\ pc = "loop"
    /\ sent[cur.conn] = <<ConfirmMsg, DescriptionMsg, StatusMsg(0, "Describe")>>

\* The ready connection is the enclave descriptor, its flags were obtained
\* and contain the hang-up flag.
HangUpReady ==
    /\ pc = "dispatch"
    /\ cur.kind = "enclave"
    /\ cur.flags_ok
    /\ "EPOLLHUP" \in cur.flags

\* C10: on a hang-up of the enclave descriptor, with or without other
\* flags, the loop breaks at once: no command is read, nothing is written,
\* and process_event_loop returns Ok.
C10_HangUpBreaksWithOk ==
    [][HangUpReady /\ pc' # pc =>
         /\ pc' = "returned"
         /\ ret_value' = "Ok"
         /\ cmd' = ""
         /\ calls' = calls
         /\ sent' = sent
         /\ ~exited']_vars

\* C10 witness: the loop has returned Ok after a hang-up reported together
\* with another flag.
C10_Witness ==
    /\ pc = "returned"
    /\ cur.kind = "enclave"
    /\ cur.flags_ok
    /\ cur.flags = {"EPOLLHUP", "EPOLLERR"}
    /\ ret_value = "Ok"

\* The signal thread has written its ConnectionListenerStop while the loop
\* is Running and no enclave is running; the loop has not fetched it yet.
SignalDelivered ==
    /\ sigChan = "cmd"
    /\ ~done
    /\ pc # "returned"
    /\ ~exited
    /\ enclave_manager.enclave_id = 0

\* The loop has fetched the signal thread's ConnectionListenerStop, is Done,
\* has stopped the listener and has written no reply for it.
SignalObserved ==
    /\ cur.kind = "signal"
    /\ cmd = "ConnectionListenerStop"
    /\ done
    /\ calls.stop = 1
    /\ conn_listener.state = "Stopped"
    /\ sent[cur.conn] = <<>>

\* Exactly one ConnectionListenerStop is written on the signal channel: by
\* the signal thread, which then ends.
OneStopCommand ==
    [][sigChan' # sigChan =>
         \/ sigChan = "empty" /\ sigChan' = "cmd"
              /\ sigThread = "waiting" /\ sigThread' = "stopped"
         \/ sigChan = "cmd" /\ sigChan' = "read" /\ cur'.kind = "signal"]_vars

\* C11 as stated: after a signal delivered while the loop is Running with no
\* enclave running, the loop eventually observes the ConnectionListenerStop,
\* becomes Done, stops the listener, writes no reply, and
\* process_event_loop returns success.
C11_SignalAlwaysObserved ==
    SignalDelivered ~> (SignalObserved /\ pc = "returned" /\ ret_value = "Ok")

\* C11 as amended: exactly one ConnectionListenerStop is written, and after
\* its delivery the loop eventually observes it, becomes Done, stops the
\* listener, writes no reply and returns success, unless the loop has
\* returned before fetching the command or ok_or_exit has ended the process.
C11_SignalObservedUnlessEnded ==
    /\ OneStopCommand
    /\ SignalDelivered ~>
         \/ SignalObserved /\ pc = "returned" /\ ret_value = "Ok"
         \/ sigChan = "cmd" /\ pc = "returned"
         \/ exited

\* C11 witness: the loop has returned success after observing the signal
\* thread's command with no enclave running.
C11_Witness ==
    /\ SignalObserved
    /\ pc = "returned"
    /\ ret_value = "Ok"
    /\ ~exited
    /\ enclave_manager.enclave_id = 0

\* process_event_loop has returned from the iteration in which read_command
\* failed on a ready connection that is not the enclave descriptor; the
\* failure was forwarded to the peer.
ReadFailureReturned ==
    /\ pc = "returned"
    /\ cur.kind = "client"
    /\ cur.flags_ok
    /\ cmd = ""
    /\ sent[cur.conn] = <<ErrorMsg("read_command")>>

\* C12: when read_command fails on a ready non-hardware connection, the
\* failure is reported to the peer and process_event_loop returns an error.
C12_ReadFailureReturnsError == ReadFailureReturned => ret_value = "Err"

\* C13: when a handler returns an error, the message is forwarded to the
\* peer, the status code of the iteration is EINVAL, the loop is Done in the
\* same iteration (the listener is stopped at once), a client command gets
\* EINVAL as its reply, and once Done no further command is read.
C13_HandlerErrorEndsLoop ==
    [][/\ (pc = "finish" /\ ~status.ok /\ pc' # pc) =>
            /\ sent' = [sent EXCEPT ![cur.conn] = Append(@, ErrorMsg(cmd))]
            /\ status'.code = EINVAL
            /\ done'
            /\ conn_listener'.state = "Stopped"
            /\ pc' = "join"
       /\ (pc = "reply" /\ ~status.ok /\ pc' # pc) =>
            /\ done
            /\ pc' = "loop"
            /\ sent' = IF cmd \in ClientCommands
                       THEN [sent EXCEPT ![cur.conn] = Append(@, StatusMsg(EINVAL, cmd))]
                       ELSE sent
       /\ done =>
            /\ calls'.get_next_connection = calls.get_next_connection
            /\ calls'.read_command = calls.read_command
            /\ cmd' = cmd
            /\ pc' \in {"join", "reply", "loop", "returned"}]_vars

\* C13 witness: a client command whose handler failed has been answered
\* with the error message and EINVAL, and the loop has returned.
C13_Witness ==
    /\ pc = "returned"
    /\ done
    /\ ~status.ok
    /\ cmd \in ClientCommands
    /\ sent[cur.conn] = <<ErrorMsg(cmd), StatusMsg(EINVAL, cmd)>>

\* C14: whatever the terminate delegate returns and whether or not the
\* requester's connection is live, a termination task goes on to write
\* TerminateComplete: it never ends in the report of a terminate failure.
C14_TaskAlwaysNotifies == \A k \in TaskIds : task[k].state # "failed_report"

\* The iteration that handled a NotPermitted command has ended.
NotPermittedHandled ==
    /\ pc = "loop"
    /\ cur.kind = "client"
    /\ cmd = "NotPermitted"

\* C15 as stated: a handled NotPermitted command has EACCES written to the
\* sending peer as its status reply.
C15_NotPermittedRepliedEACCES ==
    NotPermittedHandled =>
        StatusMsg(EACCES, "NotPermitted") \in Range(sent[cur.conn])

\* C15 amended: NotPermitted yields the status code EACCES, which is not
\* written to the peer; nothing is written on the connection, the enclave
\* manager, the listener and the termination thread handle are unchanged and
\* the loop stays Running.
C15_NotPermittedChangesNothing ==
    [][(cmd = "NotPermitted" /\ pc \in {"handle", "finish", "reply"} /\ pc' # pc) =>
          /\ status' = [ok |-> TRUE, code |-> EACCES, brk |-> FALSE]
          /\ ~done'
          /\ pc' \in {"finish", "reply", "loop"}
          /\ sent'[cur.conn] = sent[cur.conn]
          /\ UNCHANGED <<enclave_manager, conn_listener, terminate_thread>>]_vars

\* C15 witness: a NotPermitted iteration has ended with EACCES as its status
\* code, nothing written to the peer and the loop Running.
C15_Witness ==
    /\ NotPermittedHandled
    /\ status.code = EACCES
    /\ sent[cur.conn] = <<>>
    /\ ~done
    /\ ~exited

\* C16: enclave_id is empty at loop start, becomes non-empty only by a Run
\* handled while it is empty, and is not changed afterwards by any command,
\* enclave event or termination; the listener's enclave address is started
\* and the enclave descriptor registered at most once.
C16_EnclaveIdSetOnce ==
    /\ enclave_manager = DefaultEnclaveManager
    /\ [][/\ enclave_manager' # enclave_manager =>
               /\ enclave_manager.enclave_id = 0
               /\ enclave_manager'.enclave_id # 0
               /\ pc = "handle"
               /\ cmd = "Run"
          /\ calls'.start <= 1
          /\ calls'.register_enclave_descriptor <= 1]_vars

\* C16 witness: an enclave was run and registered, a termination thread for
\* it has finished, and the enclave manager still carries its enclave_id.
C16_Witness ==
    /\ enclave_manager.enclave_id # 0
    /\ calls.start = 1
    /\ calls.register_enclave_descriptor = 1
    /\ \E k \in TaskIds : task[k].state = "finished"

\* The status replies written on connection c.
StatusReplies(c) == {i \in DOMAIN sent[c] : sent[c][i][1] = "status"}

\* C17: a status reply is written only at the end of an iteration, after the
\* handler, on the connection of a Run, Terminate or Describe command, with
\* the handler's code, or EINVAL if the handler failed; an iteration that
\* has ended has written exactly one status reply for these commands and
\* none for any other command.
C17_OneReplyPerClientCommand ==
    /\ \A c \in ConnIds : StatusReplies(c) = {}
    /\ [][/\ \A c \in ConnIds :
               sent'[c] # sent[c] /\ sent'[c][Len(sent'[c])][1] = "status" =>
                  /\ pc = "reply"
                  /\ c = cur.conn
                  /\ cmd \in ClientCommands
                  /\ StatusReplies(c) = {}
                  /\ sent'[c] = Append(sent[c], StatusMsg(IF status.ok THEN status.code
                                                          ELSE EINVAL, cmd))
          /\ (pc = "reply" /\ pc' = "loop") =>
               Cardinality({i \in DOMAIN sent'[cur.conn] :
                              sent'[cur.conn][i][1] = "status"}) =
                  IF cmd \in ClientCommands THEN 1 ELSE 0]_vars

\* C17 witness: a Describe whose handler failed has been answered with
\* EINVAL, and the iteration has ended.
C17_Witness ==
    /\ pc \in {"loop", "returned"}
    /\ cmd = "Describe"
    /\ ~status.ok
    /\ Cardinality(StatusReplies(cur.conn)) = 1
    /\ StatusMsg(EINVAL, "Describe") \in Range(sent[cur.conn])

\* The ready connection is the enclave descriptor, its flags were obtained,
\* are not empty and do not contain the hang-up flag.
UnexpectedReady ==
    /\ pc = "dispatch"
    /\ cur.kind = "enclave"
    /\ cur.flags_ok
    /\ cur.flags # {}
    /\ "EPOLLHUP" \notin cur.flags

\* C18: on an enclave event without the hang-up flag the loop continues with
\* the next iteration: no command is read, nothing is written, and the
\* enclave manager, the listener, the termination thread handle, the result
\* and the Running state are unchanged.
C18_UnexpectedEventContinues ==
    [][UnexpectedReady /\ pc' # pc =>
         /\ pc' = "loop"
         /\ ~done /\ ~done'
         /\ cmd' = ""
         /\ calls' = calls
         /\ sent' = sent
         /\ ~exited'
         /\ UNCHANGED <<enclave_manager, conn_listener, terminate_thread,
                        ret_value>>]_vars

\* C18 witness: after an enclave event with flags other than the hang-up
\* the loop waits for the next connection.
C18_Witness ==
    /\ pc = "wait"
    /\ cur.kind = "enclave"
    /\ cur.flags_ok
    /\ cur.flags = {"EPOLLERR", "EPOLLIN"}
    /\ cmd = ""
    /\ ~done
    /\ ~exited

\* The loop is about to handle a Run with no active enclave.
RunWhileEmpty ==
    /\ pc = "handle"
    /\ cmd = "Run"
    /\ enclave_manager.enclave_id = 0

\* C19: a Run handled with no active enclave creates the enclave, adopts the
\* handle, starts the listener address and registers the enclave descriptor
\* in this order, a failed step stopping the later ones; a failure ends as
\* EINVAL with the loop Done, a success as reply 0 with the loop Running;
\* the enclave descriptor is registered only while enclave_id is non-empty
\* and the listener address is started.
C19_RunStepsInOrder ==
    /\ ~conn_listener.enclave_fd
    /\ [][/\ (RunWhileEmpty /\ pc' # pc) =>
               LET ran == calls'.run_enclaves = calls.run_enclaves + 1
                   started == calls'.start = calls.start + 1
                   registered == calls'.register_enclave_descriptor =
                                    calls.register_enclave_descriptor + 1
               IN  /\ enclave_manager' # enclave_manager => ran
                   /\ started => ran /\ enclave_manager'.enclave_id # 0
                   /\ registered => started /\ ListenEndpoint \in conn_listener'.endpoints
                   /\ status'.ok <=> registered
                   /\ status'.ok => status'.code = 0 /\ ~status'.brk
                   /\ ~registered => calls'.register_enclave_descriptor =
                                        calls.register_enclave_descriptor
                   /\ ~started => calls'.start = calls.start
                   /\ ~ran => calls' = calls /\ enclave_manager' = enclave_manager
          /\ (cmd = "Run" /\ pc = "reply" /\ pc' = "loop" /\ pre_manager.enclave_id = 0) =>
               IF status.ok
               THEN /\ ~done'
                    /\ sent' = [sent EXCEPT ![cur.conn] = Append(@, StatusMsg(0, "Run"))]
               ELSE /\ done'
                    /\ sent' = [sent EXCEPT ![cur.conn] = Append(@, StatusMsg(EINVAL, "Run"))]
          /\ conn_listener'.enclave_fd =>
               /\ enclave_manager'.enclave_id # 0
               /\ ListenEndpoint \in conn_listener'.endpoints]_vars

\* C19 witness: a Run failed after the enclave was created and the listener
\* address started, was answered with EINVAL, and the loop is Done with no
\* enclave descriptor registered.
C19_Witness ==
    /\ pc = "returned"
    /\ cmd = "Run"
    /\ pre_manager.enclave_id = 0
    /\ enclave_manager.enclave_id # 0
    /\ calls.start = 1
    /\ calls.register_enclave_descriptor = 0
    /\ done
    /\ sent[cur.conn] = <<ErrorMsg("Run"), StatusMsg(EINVAL, "Run")>>

\* C20: when the loop is Done while a termination thread is in flight, the
\* thread's write of TerminateComplete after the listener was stopped does
\* not end the process: no thread fails to send its TerminateComplete.
C20_DoneWithTaskInFlightCompletes ==
    done => \A k \in TaskIds : task[k].state # "failed_send"

====
